---- MODULE Spec2Model ----
(***************************************************************************)
(* Model of the bitbox keystore (package bitbox, keystore.go): the         *)
(* SignTransaction dispatch, signBTCTransaction, signETHTransaction and    *)
(* OutputAddress, together with the hardware device they talk to.          *)
(*                                                                         *)
(* Go slices are modelled as functions over 0..n-1, so that every index    *)
(* of the model is the index of the source.                                *)
(*                                                                         *)
(* The Load component of the load() decorator (decorators/load.tsx) is     *)
(* modelled beside it, with a specification of its own (SpecLoad): its     *)
(* renders, its requests and the responses that arrive in any order.       *)
(***************************************************************************)
EXTENDS Integers, Sequences, FiniteSets, TLC

\* ------------------------------------------------------------------ bounds
MaxInputs == 2        \* inputs of a Bitcoin transaction: 1..MaxInputs
NumCosigners == 2     \* columns of the multisig signature matrix
MaxCalls == 2         \* SignTransaction calls one caller makes
MaxExtraSigs == 1     \* the device returns 0..n+MaxExtraSigs signatures
MaxOutputCalls == 2   \* OutputAddress calls
NumCallers == 2       \* goroutines that may call SignTransaction
MaxPropChanges == 1   \* times the parent passes props to the Load component again

\* ------------------------------------------------------- program constants
SigLen == 65          \* sig := make([]byte, 65)
FieldLen == 32        \* math.PaddedBigBytes(signature.R, 32)

Nil == "nil"                     \* a nil error, a nil string
NoSignature == [empty |-> TRUE]  \* a nil signature pointer, an unsigned Tx
NoDigest == [algo |-> "none"]    \* no digest
Callers == 1..NumCallers

\* ------------------------------------------------------------------- lists
EmptyList == [k \in {} |-> Nil]
Len0(l) == Cardinality(DOMAIN l)
Append0(l, x) == [k \in 0..Len0(l) |-> IF k < Len0(l) THEN l[k] ELSE x]

\* ------------------------------------------------- the wallet's known world
\* Outpoints that a proposal may spend, the outputs they refer to and the
\* addresses owning them.  Scripts whose name starts with "malformed" cannot
\* be parsed by the sighash algorithms.
OutPoints == {"o1", "o2", "o3", "o4"}

SpentOutput(o) ==
    CASE o = "o1" -> [Value |-> 100000, ScriptHashHex |-> "hA"]
      [] o = "o2" -> [Value |-> 20000,  ScriptHashHex |-> "hB"]
      [] o = "o3" -> [Value |-> 3000,   ScriptHashHex |-> "hC"]
      [] o = "o4" -> [Value |-> 400,    ScriptHashHex |-> "hD"]

Address(h) ==
    CASE h = "hA" -> [isSegwit |-> TRUE,  subScript |-> "scriptA", keypath |-> "m/48'/0'/0'/0/1"]
      [] h = "hB" -> [isSegwit |-> FALSE, subScript |-> "scriptB", keypath |-> "m/44'/0'/0'/0/2"]
      [] h = "hC" -> [isSegwit |-> TRUE,  subScript |-> "malformedC", keypath |-> "m/48'/0'/0'/0/3"]
      [] h = "hD" -> [isSegwit |-> FALSE, subScript |-> "malformedD", keypath |-> "m/44'/0'/0'/0/4"]

MalformedScripts == {"malformedC", "malformedD"}

\* btcProposedTx.GetAddress(scriptHashHex)
GetAddress(scriptHashHex) == Address(scriptHashHex)

\* address.ScriptForHashToSign()
ScriptForHashToSign(address) == <<address.isSegwit, address.subScript>>

\* The outpoints of a transaction, in input order: what both sighash
\* algorithms commit to (neither reads the inputs' signature scripts: the
\* legacy algorithm blanks them in its copy of the transaction).
PrevOuts(transaction) ==
    [k \in DOMAIN transaction.TxIn |-> transaction.TxIn[k].PreviousOutPoint]

\* txscript.NewTxSigHashes(transaction): the proposal's cache
TxSigHashes(transaction) == [hashPrevOuts |-> PrevOuts(transaction)]

\* txscript.CalcWitnessSigHash(subScript, sigHashes, hashType, tx, idx, amt)
CalcWitnessSigHash(subScript, sigHashes, hashType, transaction, idx, amt) ==
    IF subScript \in MalformedScripts \/ idx \notin DOMAIN transaction.TxIn
    THEN [err |-> "cannot parse script", hash |-> NoDigest]
    ELSE [err |-> Nil,
          hash |-> [algo |-> "witness", subScript |-> subScript,
                    hashType |-> hashType, idx |-> idx, amt |-> amt,
                    commits |-> sigHashes.hashPrevOuts]]

\* txscript.CalcSignatureHash(subScript, hashType, tx, idx)
CalcSignatureHash(subScript, hashType, transaction, idx) ==
    IF subScript \in MalformedScripts \/ idx \notin DOMAIN transaction.TxIn
    THEN [err |-> "cannot parse script", hash |-> NoDigest]
    ELSE [err |-> Nil,
          hash |-> [algo |-> "legacy", subScript |-> subScript,
                    hashType |-> hashType, idx |-> idx, amt |-> 0,
                    commits |-> PrevOuts(transaction)]]

\* ---------------------------------------------------------------- Ethereum
\* big.Int.Bytes(): the big-endian bytes of x, without leading zeros
RECURSIVE BigBytes(_)
BigBytes(x) ==
    IF x = 0 THEN EmptyList ELSE Append0(BigBytes(x \div 256), x % 256)

\* math.PaddedBigBytes(x, n): the bytes of x, left-padded with zeros to n
\* bytes; a value needing more than n bytes is returned unpadded
PaddedBigBytes(x, n) ==
    LET b == BigBytes(x) IN
    IF Len0(b) >= n THEN b
    ELSE [k \in 0..n-1 |-> IF k < n - Len0(b) THEN 0 ELSE b[k - (n - Len0(b))]]

\* the big-endian value of bytes lo..hi of b
RECURSIVE BytesValue(_, _, _)
BytesValue(b, lo, hi) ==
    IF hi < lo THEN 0 ELSE BytesValue(b, lo, hi - 1) * 256 + b[hi]

\* mutant: R and S are copied into each other's half
CompactSig_SwapRS(signature) ==
    LET r == PaddedBigBytes(signature.Signature.R, FieldLen)
        s == PaddedBigBytes(signature.Signature.S, FieldLen)
    IN  [k \in 0..SigLen-1 |->
            IF k < FieldLen THEN s[k]
            ELSE IF k < 2 * FieldLen THEN r[k - FieldLen]
            ELSE signature.RecID % 256]

\* lines 143-146: sig := make([]byte, 65); copy(sig[:32], ...R);
\* copy(sig[32:64], ...S); sig[64] = byte(RecID)
CompactSig(signature) ==
    LET r == PaddedBigBytes(signature.Signature.R, FieldLen)
        s == PaddedBigBytes(signature.Signature.S, FieldLen)
    IN  [k \in 0..SigLen-1 |->
            IF k < FieldLen THEN r[k]
            ELSE IF k < 2 * FieldLen THEN s[k - FieldLen]
            ELSE signature.RecID % 256]

\* txProposal.Signer.Hash(txProposal.Tx): the EIP-155 digest of the
\* transaction's unsigned content under the signer's chain id
SignerHash(signer, tx) ==
    [algo |-> "eip155", chainId |-> signer.chainId,
     nonce |-> tx.nonce, payload |-> tx.payload]

\* txProposal.Tx.WithSignature(txProposal.Signer, sig): Signer is an
\* interface; an implementation may reject the signature.
WithSignature(tx, signer, sig) ==
    IF Len0(sig) # SigLen \/ signer.rejects
    THEN [err |-> "invalid signature", tx |-> tx]
    ELSE [err |-> Nil,
          tx |-> [tx EXCEPT !.sig =
                    [R |-> BytesValue(sig, 0, FieldLen - 1),
                     S |-> BytesValue(sig, FieldLen, 2 * FieldLen - 1),
                     V |-> sig[SigLen - 1] + 35 + 2 * signer.chainId]]]

\* ------------------------------------------------------------- the device
\* What the device's Sign may answer to a request of n digests: the holder
\* declines, a transport or firmware fault, or a list of signatures.  A
\* well-behaved device answers n signatures, the k-th over the k-th digest
\* with the key at the k-th path; a misbehaving one answers another count.
AbortError == "touch abort"
DeviceFaults == {"transport fault", "firmware fault"}
SigValues == { [R |-> 1, S |-> 2, RecID |-> 0], [R |-> 300, S |-> 65535, RecID |-> 1] }

DeviceSignature(digests, paths, k, v) ==
    [Signature |-> [R |-> v.R, S |-> v.S,
                    digest  |-> IF k \in DOMAIN digests THEN digests[k] ELSE NoDigest,
                    keypath |-> IF k \in DOMAIN paths THEN paths[k] ELSE Nil],
     RecID |-> v.RecID]

DeviceSign(txProposal, digests, paths) ==
    { [err |-> e, signatures |-> EmptyList] : e \in {AbortError} \cup DeviceFaults }
    \cup
    { [err |-> Nil,
       signatures |-> [k \in 0..m-1 |-> DeviceSignature(digests, paths, k, v)]] :
         m \in 0..(Len0(digests) + MaxExtraSigs), v \in SigValues }

\* dbb.displayAddress(keyPath, label)
DisplayAnswers == {Nil, "display failed"}

\* isErrorAbort(err)
isErrorAbort(err) == err = AbortError

\* --------------------------------------------------------------- proposals
EmptyScript == ""
NoProposal == [kind |-> "none"]
UnknownProposal == [kind |-> "unknown"]

InputLists ==
    UNION { { l \in [0..n-1 -> OutPoints] : \A a, b \in 0..n-1 : l[a] = l[b] => a = b } :
            n \in 1..MaxInputs }

\* a signature another cosigner has already placed in its column
OtherSig(i, j) ==
    [R |-> 7, S |-> 9, digest |-> [algo |-> "other", idx |-> i, col |-> j],
     keypath |-> "m/48'/0'/1'"]

BtcProposal(ins, missing, filled, col) ==
    LET transaction ==
            [TxIn |-> [k \in DOMAIN ins |->
                        [PreviousOutPoint |-> ins[k], SignatureScript |-> EmptyScript]]]
    IN  [kind |-> "btc",
         Transaction |-> transaction,
         PreviousOutputs |-> [o \in {ins[k] : k \in DOMAIN ins} \ missing |-> SpentOutput(o)],
         SigHashes |-> TxSigHashes(transaction),
         Signatures |-> [i \in DOMAIN ins |->
                          [j \in 0..NumCosigners-1 |->
                             IF filled /\ j # col THEN OtherSig(i, j) ELSE NoSignature]]]

BtcProposals(col) ==
    { BtcProposal(ins, missing, filled, col) :
        ins \in InputLists,
        missing \in {{}} \cup { {o} : o \in OutPoints },
        filled \in BOOLEAN }

EthProposals ==
    { [kind |-> "eth",
       Tx |-> [nonce |-> 0, payload |-> "transfer", sig |-> NoSignature],
       Signer |-> [chainId |-> 1, rejects |-> r],
       Keypath |-> "m/44'/60'/0'/0/0"] : r \in BOOLEAN }

Proposals(col) == BtcProposals(col) \cup EthProposals \cup {UnknownProposal}

\* the proposals of one input, used when several callers run concurrently
SmallProposals(col) ==
    { p \in Proposals(col) :
        p.kind = "btc" => /\ Len0(p.Transaction.TxIn) = 1
                          /\ \A i \in DOMAIN p.Signatures :
                               \A j \in DOMAIN p.Signatures[i] : p.Signatures[i][j] = NoSignature }

\* -------------------------------------------------------------------- state
VARIABLES
    cosignerIndex,    \* keystore.cosignerIndex
    channel,          \* keystore.dbb.channel # nil
    prop,             \* prop[c]: the proposal caller c owns
    entry,            \* entry[c]: prop[c] as it was when c's current call began
    pc,               \* pc[c]: where c's SignTransaction call stands
    index,            \* index[c]: the loop variable of signBTCTransaction
    signatureHashes,  \* signatureHashes[c]: the local list of digests
    keyPaths,         \* keyPaths[c]: the local list of keypaths
    signArgs,         \* signArgs[c]: the arguments of c's last Sign invocation
    signCount,        \* signCount[c]: Sign invocations of c's current call
    signResult,       \* signResult[c]: (signatures, err) as Sign returned them
    result,           \* result[c]: what c's last SignTransaction call returned
    calls,            \* calls[c]: SignTransaction calls c has made
    previous,         \* previous[c]: what c's previous call gave to Sign
    outputCalls,      \* OutputAddress calls made
    displayRequests,  \* the displayAddress requests sent to the device
    displayAnswer,    \* what the device answered to the last of them
    outputResult      \* what the last OutputAddress call returned

signVars == <<prop, entry, pc, index, signatureHashes, keyPaths, signArgs,
              signCount, signResult, result, calls, previous>>
outputVars == <<outputCalls, displayRequests, displayAnswer, outputResult>>

\* The Load component that the load() decorator produces (decorators/load.tsx)
VARIABLES
    renderOnlyOnceLoaded,  \* the decorator's second parameter
    loadProps,             \* this.props
    loadState,             \* this.state
    endpoints,             \* this.endpoints
    inflight,              \* the apiGet requests not yet answered
    issued,                \* every apiGet request made so far
    logCounter,            \* logCounter
    mounted,               \* componentDidMount has run
    dirty,                 \* setState has enqueued a render
    rendered,              \* what the last render() returned, and from what
    lastLoad,              \* what the last loadEndpoints() found and did
    propChanges            \* the times the parent has passed props again

loadVars == <<renderOnlyOnceLoaded, loadProps, loadState, endpoints, inflight,
              issued, logCounter, mounted, dirty, rendered, lastLoad, propChanges>>
keystoreVars == <<cosignerIndex, channel, signVars, outputVars>>
vars == <<cosignerIndex, channel, signVars, outputVars, loadVars>>

NoSignArgs == [invoked |-> FALSE]
NoSignResult == [err |-> Nil, signatures |-> EmptyList, returned |-> FALSE]
NoResult == [class |-> "none", detail |-> Nil, cause |-> Nil]
NoPrevious == [invoked |-> FALSE, digests |-> EmptyList, paths |-> EmptyList,
               failed |-> FALSE]
\* what is remembered of a call when the next one begins: the lists it gave to
\* Sign, and whether Sign ended it with an abort or a fault
PreviousOf(args, res) ==
    IF args.invoked
    THEN [invoked |-> TRUE, digests |-> args.digests, paths |-> args.paths,
          failed |-> res.returned /\ res.err # Nil]
    ELSE NoPrevious

\* the results a call can end with
Ok == [class |-> "Ok", detail |-> Nil, cause |-> Nil]
\* errp.WithStack(keystorePkg.ErrSigningAborted)
ErrSigningAborted == [class |-> "UserAbortedSigning", detail |-> "signing aborted", cause |-> Nil]
\* errp.Wrap(err, msg), errp.WithMessage(err, msg), or err itself (msg = Nil)
Error(msg, err) == [class |-> "Error", detail |-> msg, cause |-> err]
\* panic(msg): the call does not return
Panic(msg) == [class |-> "Panic", detail |-> msg, cause |-> Nil]

\* ------------------------------------------------- the Load component's data
Undefined == "undefined"              \* JavaScript's undefined
\* Object.keys order of the keys an endpoints object may have
KeyOrder == <<"testing", "version">>
Keys == {KeyOrder[n] : n \in DOMAIN KeyOrder}
Endpoints == {"/testing", "/version"}
\* EndpointsObject<LoadedProps>: a key that is absent reads as undefined
EndpointsObjects == [Keys -> Endpoints \cup {Undefined}]
NoEndpoints == [k \in Keys |-> Undefined]
\* Object.keys(object)
ObjectKeys(object) == {k \in Keys : object[k] # Undefined}
\* private endpoints: not assigned until componentDidMount
NullEndpoints == [isNull |-> TRUE, object |-> NoEndpoints]
\* the props the parent passes, as far as the endpoints function reads them
PropsValues == [endpoints : EndpointsObjects]
\* the object that apiGet(endpoint) resolves to: it tells its endpoint
ApiResponse(endpoint) == endpoint
NotRendered == [out |-> "none", props |-> [endpoints |-> NoEndpoints], state |-> NoEndpoints]
\* what is remembered of the last loadEndpoints: the endpoints, the state and
\* the logCounter it found, and how many runs so far found the endpoints of
\* the props to differ from the recorded ones
NoLoad == [ran |-> FALSE, old |-> NullEndpoints, counter |-> 0,
           stateBefore |-> NoEndpoints, changes |-> 0]

\* the component after construction, before its first render
LoadConstructed(props, onlyOnceLoaded) ==
    /\ renderOnlyOnceLoaded = onlyOnceLoaded
    /\ loadProps = props
    /\ loadState = NoEndpoints
    /\ endpoints = NullEndpoints
    /\ inflight = {}
    /\ issued = {}
    /\ logCounter = 0
    /\ mounted = FALSE
    /\ dirty = FALSE
    /\ rendered = NotRendered
    /\ lastLoad = NoLoad
    /\ propChanges = 0

InitCommon ==
    /\ cosignerIndex \in 0..NumCosigners-1
    /\ channel \in BOOLEAN
    /\ entry = [c \in Callers |-> NoProposal]
    /\ pc = [c \in Callers |-> "idle"]
    /\ index = [c \in Callers |-> 0]
    /\ signatureHashes = [c \in Callers |-> EmptyList]
    /\ keyPaths = [c \in Callers |-> EmptyList]
    /\ signArgs = [c \in Callers |-> NoSignArgs]
    /\ signCount = [c \in Callers |-> 0]
    /\ signResult = [c \in Callers |-> NoSignResult]
    /\ result = [c \in Callers |-> NoResult]
    /\ calls = [c \in Callers |-> 0]
    /\ previous = [c \in Callers |-> NoPrevious]
    /\ outputCalls = 0
    /\ displayRequests = 0
    /\ displayAnswer = Nil
    /\ outputResult = NoResult

\* one caller at a time: the first caller owns any proposal, the others none
Init ==
    /\ InitCommon
    /\ LoadConstructed([endpoints |-> NoEndpoints], TRUE)
    /\ \E p \in Proposals(cosignerIndex) :
         prop = [c \in Callers |-> IF c = 1 THEN p ELSE NoProposal]

\* several goroutines, each with a proposal of its own
InitConcurrent ==
    /\ InitCommon
    /\ LoadConstructed([endpoints |-> NoEndpoints], TRUE)
    /\ prop \in [Callers -> SmallProposals(cosignerIndex)]

\* ------------------------------------------------------------- the keystore
\* CosignerIndex()
CosignerIndex == cosignerIndex

\* HasSecureOutput()
HasSecureOutput == channel

SigHashAll == "SigHashAll"
NoTransaction == [TxIn |-> EmptyList]
List1(x) == [k \in {0} |-> x]

\* mutant: the address of the first input is used for every input
ownerAddress_FirstInput(p, i) ==
    GetAddress(p.PreviousOutputs[p.Transaction.TxIn[0].PreviousOutPoint].ScriptHashHex)

\* lines 75-79: the address owning the output that input i of p spends
\* (defined when the previous output is in the proposal's mapping)
ownerAddress(p, i) ==
    GetAddress(p.PreviousOutputs[p.Transaction.TxIn[i].PreviousOutPoint].ScriptHashHex)

\* mutant: a missing previous output is logged and the loop goes on
signBTCInput_MissingTolerated(p, i) ==
    LET transaction == p.Transaction
        txIn == transaction.TxIn[i]
    IN  IF txIn.PreviousOutPoint \notin DOMAIN p.PreviousOutputs
        THEN [status |-> "next", ret |-> NoResult,
              hash |-> NoDigest, keyPath |-> Nil, prop |-> p]
        ELSE
        LET spentOutput == p.PreviousOutputs[txIn.PreviousOutPoint]
            address == ownerAddress(p, i)
            isSegwit == ScriptForHashToSign(address)[1]
            subScript == ScriptForHashToSign(address)[2]
            calc == IF isSegwit
                    THEN CalcWitnessSigHash(subScript, p.SigHashes, SigHashAll,
                                            transaction, i, spentOutput.Value)
                    ELSE CalcSignatureHash(subScript, SigHashAll, transaction, i)
        IN  IF calc.err # Nil
            THEN [status |-> "error",
                  ret |-> Error(IF isSegwit
                                THEN "Failed to calculate SegWit signature hash"
                                ELSE "Failed to calculate legacy signature hash",
                                calc.err),
                  hash |-> NoDigest, keyPath |-> Nil, prop |-> p]
            ELSE [status |-> "next", ret |-> NoResult,
                  hash |-> calc.hash,
                  keyPath |-> address.keypath,
                  prop |-> [p EXCEPT !.Transaction.TxIn[i].SignatureScript = subScript]]

\* mutant: the legacy algorithm is used whatever the address says
signBTCInput_AlwaysLegacy(p, i) ==
    LET transaction == p.Transaction
        txIn == transaction.TxIn[i]
    IN  IF txIn.PreviousOutPoint \notin DOMAIN p.PreviousOutputs
        THEN [status |-> "panic",
              ret |-> Panic("There needs to be exactly one output being spent per input!"),
              hash |-> NoDigest, keyPath |-> Nil, prop |-> p]
        ELSE
        LET address == ownerAddress(p, i)
            subScript == ScriptForHashToSign(address)[2]
            calc == CalcSignatureHash(subScript, SigHashAll, transaction, i)
        IN  IF calc.err # Nil
            THEN [status |-> "error",
                  ret |-> Error("Failed to calculate legacy signature hash", calc.err),
                  hash |-> NoDigest, keyPath |-> Nil, prop |-> p]
            ELSE [status |-> "next", ret |-> NoResult,
                  hash |-> calc.hash,
                  keyPath |-> address.keypath,
                  prop |-> [p EXCEPT !.Transaction.TxIn[i].SignatureScript = subScript]]

\* One iteration of the loop of signBTCTransaction, for input i of proposal p:
\* the previous output is looked up, the digest computed by the algorithm the
\* address asks for, and the subScript written into the input.
signBTCInput(p, i) ==
    LET transaction == p.Transaction
        txIn == transaction.TxIn[i]
    IN  IF txIn.PreviousOutPoint \notin DOMAIN p.PreviousOutputs
        THEN [status |-> "panic",
              ret |-> Panic("There needs to be exactly one output being spent per input!"),
              hash |-> NoDigest, keyPath |-> Nil, prop |-> p]
        ELSE
        LET spentOutput == p.PreviousOutputs[txIn.PreviousOutPoint]
            address == ownerAddress(p, i)
            isSegwit == ScriptForHashToSign(address)[1]
            subScript == ScriptForHashToSign(address)[2]
            calc == IF isSegwit
                    THEN CalcWitnessSigHash(subScript, p.SigHashes, SigHashAll,
                                            transaction, i, spentOutput.Value)
                    ELSE CalcSignatureHash(subScript, SigHashAll, transaction, i)
        IN  IF calc.err # Nil
            THEN [status |-> "error",
                  ret |-> Error(IF isSegwit
                                THEN "Failed to calculate SegWit signature hash"
                                ELSE "Failed to calculate legacy signature hash",
                                calc.err),
                  hash |-> NoDigest, keyPath |-> Nil, prop |-> p]
            ELSE [status |-> "next", ret |-> NoResult,
                  hash |-> calc.hash,
                  keyPath |-> address.keypath,
                  prop |-> [p EXCEPT !.Transaction.TxIn[i].SignatureScript = subScript]]

\* mutant: the loop wrote the subScripts into copies of the inputs, and the
\* device is given the transaction without them
btcSignArgs_BlankScripts(p, hashes, paths) ==
    [invoked |-> TRUE, hasTx |-> TRUE,
     txProposal |-> [TxIn |-> [k \in DOMAIN p.Transaction.TxIn |->
                        [p.Transaction.TxIn[k] EXCEPT !.SignatureScript = EmptyScript]]],
     digests |-> hashes, paths |-> paths]

\* line 107: the arguments of keystore.dbb.Sign for a Bitcoin proposal
btcSignArgs(p, hashes, paths) ==
    [invoked |-> TRUE, hasTx |-> TRUE, txProposal |-> p.Transaction,
     digests |-> hashes, paths |-> paths]

\* mutant: the signatures are stored in reverse order
btcApplySignatures_Reversed(p, signatures, col) ==
    [p EXCEPT !.Signatures =
        [i \in DOMAIN @ |->
            IF (Len0(signatures) - 1 - i) \in DOMAIN signatures
            THEN [@[i] EXCEPT ![col] = signatures[Len0(signatures) - 1 - i].Signature]
            ELSE @[i]]]

\* mutant: the signatures are stored in the column after this keystore's
btcApplySignatures_NextColumn(p, signatures, col) ==
    [p EXCEPT !.Signatures =
        [i \in DOMAIN @ |->
            IF i \in DOMAIN signatures
            THEN [@[i] EXCEPT ![(col + 1) % NumCosigners] = signatures[i].Signature]
            ELSE @[i]]]

\* lines 117-120: the signatures are stored by position in this keystore's column
btcApplySignatures(p, signatures, col) ==
    [p EXCEPT !.Signatures =
        [i \in DOMAIN @ |->
            IF i \in DOMAIN signatures
            THEN [@[i] EXCEPT ![col] = signatures[i].Signature]
            ELSE @[i]]]

\* mutant: the error is tested before the abort
btcAfterSign_ErrFirst(p, signatures, err, col) ==
    IF err # Nil
    THEN [ret |-> Error("Failed to sign signature hash", err), prop |-> p]
    ELSE IF isErrorAbort(err)
    THEN [ret |-> ErrSigningAborted, prop |-> p]
    ELSE IF Len0(signatures) # Len0(p.Transaction.TxIn)
    THEN [ret |-> Panic("number of signatures doesn't match number of inputs"), prop |-> p]
    ELSE [ret |-> Ok, prop |-> btcApplySignatures(p, signatures, col)]

\* mutant: the signatures are applied before their number is checked
btcAfterSign_ApplyFirst(p, signatures, err, col) ==
    IF isErrorAbort(err)
    THEN [ret |-> ErrSigningAborted, prop |-> p]
    ELSE IF err # Nil
    THEN [ret |-> Error("Failed to sign signature hash", err), prop |-> p]
    ELSE IF Len0(signatures) # Len0(p.Transaction.TxIn)
    THEN [ret |-> Panic("number of signatures doesn't match number of inputs"),
          prop |-> btcApplySignatures(p, signatures, col)]
    ELSE [ret |-> Ok, prop |-> btcApplySignatures(p, signatures, col)]

\* lines 108-121: what signBTCTransaction does with the answer of Sign
btcAfterSign(p, signatures, err, col) ==
    IF isErrorAbort(err)
    THEN [ret |-> ErrSigningAborted, prop |-> p]
    ELSE IF err # Nil
    THEN [ret |-> Error("Failed to sign signature hash", err), prop |-> p]
    ELSE IF Len0(signatures) # Len0(p.Transaction.TxIn)
    THEN [ret |-> Panic("number of signatures doesn't match number of inputs"), prop |-> p]
    ELSE [ret |-> Ok, prop |-> btcApplySignatures(p, signatures, col)]

\* lines 125-129: the arguments of keystore.dbb.Sign for an Ethereum proposal
ethSignArgs(p) ==
    [invoked |-> TRUE, hasTx |-> FALSE, txProposal |-> NoTransaction,
     digests |-> List1(SignerHash(p.Signer, p.Tx)),
     paths |-> List1(p.Keypath)]

\* mutant: the abort is not told from the other errors
ethAfterSign_NoAbort(p, signatures, err) ==
    IF err # Nil
    THEN [ret |-> Error(Nil, err), prop |-> p]
    ELSE IF Len0(signatures) # 1
    THEN [ret |-> Panic("expecting one signature"), prop |-> p]
    ELSE LET signed == WithSignature(p.Tx, p.Signer, CompactSig(signatures[0]))
         IN  IF signed.err # Nil
             THEN [ret |-> Error(Nil, signed.err), prop |-> p]
             ELSE [ret |-> Ok, prop |-> [p EXCEPT !.Tx = signed.tx]]

\* mutant: more than one signature is accepted
ethAfterSign_AtLeastOne(p, signatures, err) ==
    IF isErrorAbort(err)
    THEN [ret |-> ErrSigningAborted, prop |-> p]
    ELSE IF err # Nil
    THEN [ret |-> Error(Nil, err), prop |-> p]
    ELSE IF Len0(signatures) < 1
    THEN [ret |-> Panic("expecting one signature"), prop |-> p]
    ELSE LET signed == WithSignature(p.Tx, p.Signer, CompactSig(signatures[0]))
         IN  IF signed.err # Nil
             THEN [ret |-> Error(Nil, signed.err), prop |-> p]
             ELSE [ret |-> Ok, prop |-> [p EXCEPT !.Tx = signed.tx]]

\* lines 130-152: what signETHTransaction does with the answer of Sign
ethAfterSign(p, signatures, err) ==
    IF isErrorAbort(err)
    THEN [ret |-> ErrSigningAborted, prop |-> p]
    ELSE IF err # Nil
    THEN [ret |-> Error(Nil, err), prop |-> p]
    ELSE IF Len0(signatures) # 1
    THEN [ret |-> Panic("expecting one signature"), prop |-> p]
    ELSE LET signed == WithSignature(p.Tx, p.Signer, CompactSig(signatures[0]))
         IN  IF signed.err # Nil
             THEN [ret |-> Error(Nil, signed.err), prop |-> p]
             ELSE [ret |-> Ok, prop |-> [p EXCEPT !.Tx = signed.tx]]

\* mutant: the switch has no default case and returns nil
Dispatch_NoDefault(p) ==
    CASE p.kind = "btc" -> [pc |-> "btcLoop", ret |-> NoResult]
      [] p.kind = "eth" -> [pc |-> "ethHash", ret |-> NoResult]
      [] OTHER -> [pc |-> "idle", ret |-> Ok]

\* lines 157-164: the type switch of SignTransaction
Dispatch(p) ==
    CASE p.kind = "btc" -> [pc |-> "btcLoop", ret |-> NoResult]
      [] p.kind = "eth" -> [pc |-> "ethHash", ret |-> NoResult]
      [] OTHER -> [pc |-> "panicked", ret |-> Panic("unknown proposal type")]

\* mutant: a failed Sign of a Bitcoin proposal is tried again
After_Retry(ret) ==
    IF ret.class = "Panic" THEN "panicked"
    ELSE IF ret.detail = "Failed to sign signature hash" THEN "btcLoop"
    ELSE "idle"

\* where a call stands once it ended with ret
After(ret) == IF ret.class = "Panic" THEN "panicked" ELSE "idle"

\* ------------------------------------------------------------------ actions
\* mutant: the digest and keypath lists outlive the call
SignTransaction_KeepsLists(c) ==
    /\ pc[c] = "idle"
    /\ prop[c].kind # "none"
    /\ calls[c] < MaxCalls
    /\ calls' = [calls EXCEPT ![c] = @ + 1]
    /\ entry' = [entry EXCEPT ![c] = prop[c]]
    /\ pc' = [pc EXCEPT ![c] = Dispatch(prop[c]).pc]
    /\ result' = [result EXCEPT ![c] = Dispatch(prop[c]).ret]
    /\ index' = [index EXCEPT ![c] = 0]
    /\ signArgs' = [signArgs EXCEPT ![c] = NoSignArgs]
    /\ signCount' = [signCount EXCEPT ![c] = 0]
    /\ signResult' = [signResult EXCEPT ![c] = NoSignResult]
    /\ previous' = [previous EXCEPT ![c] = PreviousOf(signArgs[c], signResult[c])]
    /\ UNCHANGED <<cosignerIndex, channel, prop, signatureHashes, keyPaths, outputVars, loadVars>>

\* Caller c calls SignTransaction on its proposal.
SignTransaction(c) ==
    /\ pc[c] = "idle"
    /\ prop[c].kind # "none"
    /\ calls[c] < MaxCalls
    /\ calls' = [calls EXCEPT ![c] = @ + 1]
    /\ entry' = [entry EXCEPT ![c] = prop[c]]
    /\ pc' = [pc EXCEPT ![c] = Dispatch(prop[c]).pc]
    /\ result' = [result EXCEPT ![c] = Dispatch(prop[c]).ret]
    /\ index' = [index EXCEPT ![c] = 0]
    /\ signatureHashes' = [signatureHashes EXCEPT ![c] = EmptyList]
    /\ keyPaths' = [keyPaths EXCEPT ![c] = EmptyList]
    /\ signArgs' = [signArgs EXCEPT ![c] = NoSignArgs]
    /\ signCount' = [signCount EXCEPT ![c] = 0]
    /\ signResult' = [signResult EXCEPT ![c] = NoSignResult]
    /\ previous' = [previous EXCEPT ![c] = PreviousOf(signArgs[c], signResult[c])]
    /\ UNCHANGED <<cosignerIndex, channel, prop, outputVars, loadVars>>

\* signBTCTransaction, lines 74-105: one iteration of the loop over the inputs.
signBTCTransactionLoop(c) ==
    /\ pc[c] = "btcLoop"
    /\ index[c] < Len0(prop[c].Transaction.TxIn)
    /\ LET step == signBTCInput(prop[c], index[c]) IN
         IF step.status = "next"
         THEN /\ signatureHashes' = [signatureHashes EXCEPT ![c] = Append0(@, step.hash)]
              /\ keyPaths' = [keyPaths EXCEPT ![c] = Append0(@, step.keyPath)]
              /\ prop' = [prop EXCEPT ![c] = step.prop]
              /\ index' = [index EXCEPT ![c] = @ + 1]
              /\ UNCHANGED <<pc, result>>
         ELSE /\ pc' = [pc EXCEPT ![c] = After(step.ret)]
              /\ result' = [result EXCEPT ![c] = step.ret]
              /\ UNCHANGED <<signatureHashes, keyPaths, prop, index>>
    /\ UNCHANGED <<cosignerIndex, channel, entry, signArgs, signCount, signResult,
                   calls, previous, outputVars, loadVars>>

\* signBTCTransaction, line 107: the loop is over, Sign is invoked and blocks.
signBTCTransactionSign(c) ==
    /\ pc[c] = "btcLoop"
    /\ index[c] = Len0(prop[c].Transaction.TxIn)
    /\ pc' = [pc EXCEPT ![c] = "btcSign"]
    /\ signArgs' = [signArgs EXCEPT ![c] =
                      btcSignArgs(prop[c], signatureHashes[c], keyPaths[c])]
    /\ signCount' = [signCount EXCEPT ![c] = @ + 1]
    /\ UNCHANGED <<cosignerIndex, channel, prop, entry, index, signatureHashes,
                   keyPaths, signResult, result, calls, previous, outputVars, loadVars>>

\* signBTCTransaction, lines 107-121: Sign returns and its answer is handled.
signBTCTransactionReturn(c) ==
    /\ pc[c] = "btcSign"
    /\ \E res \in DeviceSign(signArgs[c].txProposal, signArgs[c].digests, signArgs[c].paths) :
         LET out == btcAfterSign(prop[c], res.signatures, res.err, CosignerIndex) IN
         /\ signResult' = [signResult EXCEPT ![c] =
                             [err |-> res.err, signatures |-> res.signatures, returned |-> TRUE]]
         /\ prop' = [prop EXCEPT ![c] = out.prop]
         /\ result' = [result EXCEPT ![c] = out.ret]
         /\ pc' = [pc EXCEPT ![c] = After(out.ret)]
    /\ UNCHANGED <<cosignerIndex, channel, entry, index, signatureHashes, keyPaths,
                   signArgs, signCount, calls, previous, outputVars, loadVars>>

\* signETHTransaction, lines 125-129: the digest is computed, Sign is invoked
\* and blocks.
signETHTransactionSign(c) ==
    /\ pc[c] = "ethHash"
    /\ pc' = [pc EXCEPT ![c] = "ethSign"]
    /\ signatureHashes' = [signatureHashes EXCEPT ![c] = ethSignArgs(prop[c]).digests]
    /\ signArgs' = [signArgs EXCEPT ![c] = ethSignArgs(prop[c])]
    /\ signCount' = [signCount EXCEPT ![c] = @ + 1]
    /\ UNCHANGED <<cosignerIndex, channel, prop, entry, index, keyPaths, signResult,
                   result, calls, previous, outputVars, loadVars>>

\* signETHTransaction, lines 129-152: Sign returns and its answer is handled.
signETHTransactionReturn(c) ==
    /\ pc[c] = "ethSign"
    /\ \E res \in DeviceSign(signArgs[c].txProposal, signArgs[c].digests, signArgs[c].paths) :
         LET out == ethAfterSign(prop[c], res.signatures, res.err) IN
         /\ signResult' = [signResult EXCEPT ![c] =
                             [err |-> res.err, signatures |-> res.signatures, returned |-> TRUE]]
         /\ prop' = [prop EXCEPT ![c] = out.prop]
         /\ result' = [result EXCEPT ![c] = out.ret]
         /\ pc' = [pc EXCEPT ![c] = After(out.ret)]
    /\ UNCHANGED <<cosignerIndex, channel, entry, index, signatureHashes, keyPaths,
                   signArgs, signCount, calls, previous, outputVars, loadVars>>

\* mutant: the device is asked without the check of HasSecureOutput
outputAddress_NoCheck(hasSecureOutput, answer) ==
    [requests |-> 1, ret |-> IF answer = Nil THEN Ok ELSE Error(Nil, answer)]

\* lines 55-61: OutputAddress panics without a secure output, and otherwise
\* asks the device once and returns its answer.
outputAddress(hasSecureOutput, answer) ==
    IF ~hasSecureOutput
    THEN [requests |-> 0, ret |-> Panic("HasSecureOutput must be true")]
    ELSE [requests |-> 1, ret |-> IF answer = Nil THEN Ok ELSE Error(Nil, answer)]

OutputAddress ==
    /\ outputCalls < MaxOutputCalls
    /\ \E answer \in DisplayAnswers :
         LET out == outputAddress(HasSecureOutput, answer) IN
         /\ outputCalls' = outputCalls + 1
         /\ displayRequests' = displayRequests + out.requests
         /\ displayAnswer' = IF out.requests > 0 THEN answer ELSE displayAnswer
         /\ outputResult' = out.ret
    /\ UNCHANGED <<cosignerIndex, channel, signVars, loadVars>>

Next ==
    \/ \E c \in Callers : SignTransaction(c)
    \/ \E c \in Callers : signBTCTransactionLoop(c)
    \/ \E c \in Callers : signBTCTransactionSign(c)
    \/ \E c \in Callers : signBTCTransactionReturn(c)
    \/ \E c \in Callers : signETHTransactionSign(c)
    \/ \E c \in Callers : signETHTransactionReturn(c)
    \/ OutputAddress

Spec == Init /\ [][Next]_vars
SpecConcurrent == InitConcurrent /\ [][Next]_vars

\* ------------------------------------------------------ the Load component
\* lines 43-48: the decorator is given a function of the props (an endpoints
\* object is the function that ignores them)
determineEndpoints(props) == props.endpoints

\* lines 90-98
allEndpointsLoaded(recorded, state) ==
    IF recorded.isNull
    THEN FALSE
    ELSE \A key \in ObjectKeys(recorded.object) : state[key] # Undefined

\* lines 100-103: null, or the wrapped component with the state and the props
render(props, state, recorded, onlyOnceLoaded) ==
    [out |-> IF onlyOnceLoaded /\ ~allEndpointsLoaded(recorded, state)
             THEN "null" ELSE "wrapped",
     props |-> props, state |-> state]

\* mutant: every key is requested again on every mount and update
keysToLoad_Always(oldEndpoints, newEndpoints) ==
    ObjectKeys(newEndpoints)

\* lines 66-70: the keys that loadEndpoints requests
keysToLoad(oldEndpoints, newEndpoints) ==
    {key \in ObjectKeys(newEndpoints) :
        oldEndpoints.isNull \/ newEndpoints[key] # oldEndpoints.object[key]}

\* mutant: the values of the keys that are gone stay in the state
keysToRemove_None(oldEndpoints, newEndpoints) ==
    {}

\* lines 71-78: the keys whose state loadEndpoints sets to undefined
keysToRemove(oldEndpoints, newEndpoints) ==
    IF oldEndpoints.isNull
    THEN {}
    ELSE {key \in ObjectKeys(oldEndpoints.object) : newEndpoints[key] = Undefined}

\* lines 50-58: the requests made for the keys, in Object.keys order, each
\* numbered by the logCounter it raised
requestsFor(keys, newEndpoints, counter) ==
    {[id |-> counter + Cardinality({m \in 1..n : KeyOrder[m] \in keys}),
      key |-> KeyOrder[n], endpoint |-> newEndpoints[KeyOrder[n]]] :
        n \in {m \in DOMAIN KeyOrder : KeyOrder[m] \in keys}}

\* lines 62-80: loadEndpoints, run with the props and the state it finds;
\* rerender tells whether a render was still enqueued when it began
loadEndpoints(props, state, rerender) ==
    LET oldEndpoints == endpoints
        newEndpoints == determineEndpoints(props)
        requested == keysToLoad(oldEndpoints, newEndpoints)
        removed == keysToRemove(oldEndpoints, newEndpoints)
        requests == requestsFor(requested, newEndpoints, logCounter)
    IN  /\ inflight' = inflight \cup requests
        /\ issued' = issued \cup requests
        /\ logCounter' = logCounter + Cardinality(requested)
        /\ loadState' = [key \in Keys |-> IF key \in removed THEN Undefined ELSE state[key]]
        /\ dirty' = (rerender \/ removed # {})
        /\ endpoints' = [isNull |-> FALSE, object |-> newEndpoints]
        /\ lastLoad' = [ran |-> TRUE, old |-> oldEndpoints, counter |-> logCounter,
                        stateBefore |-> state,
                        changes |-> IF oldEndpoints.isNull \/ oldEndpoints.object = newEndpoints
                                    THEN lastLoad.changes ELSE lastLoad.changes + 1]

\* the first render, then componentDidMount (lines 82-84)
componentDidMount ==
    /\ ~mounted
    /\ rendered' = render(loadProps, loadState, endpoints, renderOnlyOnceLoaded)
    /\ loadEndpoints(loadProps, loadState, FALSE)
    /\ mounted' = TRUE
    /\ UNCHANGED <<renderOnlyOnceLoaded, loadProps, propChanges, keystoreVars>>

\* lines 54-57: a request is answered and its callback sets the state, which
\* enqueues a render
apiGetThen(request) ==
    /\ request \in inflight
    /\ inflight' = inflight \ {request}
    /\ loadState' = [loadState EXCEPT ![request.key] = ApiResponse(request.endpoint)]
    /\ dirty' = TRUE
    /\ UNCHANGED <<renderOnlyOnceLoaded, loadProps, endpoints, issued, logCounter,
                   mounted, rendered, lastLoad, propChanges, keystoreVars>>

\* the enqueued render, then componentDidUpdate (lines 86-88)
componentDidUpdate ==
    /\ mounted
    /\ dirty
    /\ rendered' = render(loadProps, loadState, endpoints, renderOnlyOnceLoaded)
    /\ loadEndpoints(loadProps, loadState, FALSE)
    /\ UNCHANGED <<renderOnlyOnceLoaded, loadProps, mounted, propChanges, keystoreVars>>

\* the parent renders and passes props: the component renders with them at
\* once, then componentDidUpdate (lines 86-88)
componentDidUpdateProps(props) ==
    /\ mounted
    /\ propChanges < MaxPropChanges
    /\ propChanges' = propChanges + 1
    /\ loadProps' = props
    /\ rendered' = render(props, loadState, endpoints, renderOnlyOnceLoaded)
    /\ loadEndpoints(props, loadState, FALSE)
    /\ UNCHANGED <<renderOnlyOnceLoaded, mounted, keystoreVars>>

\* the keystore at rest, and a Load component constructed with any props
InitLoad ==
    /\ InitCommon
    /\ cosignerIndex = 0
    /\ channel = FALSE
    /\ prop = [c \in Callers |-> NoProposal]
    /\ \E props \in PropsValues, onlyOnceLoaded \in BOOLEAN :
         LoadConstructed(props, onlyOnceLoaded)

NextLoad ==
    \/ componentDidMount
    \/ \E request \in inflight : apiGetThen(request)
    \/ componentDidUpdate
    \/ \E props \in PropsValues : componentDidUpdateProps(props)

SpecLoad == InitLoad /\ [][NextLoad]_vars

\* ------------------------------------------------------------------- claims
\* what the claims read
IsBtc(c) == prop[c].kind = "btc"
IsEth(c) == prop[c].kind = "eth"
Inputs(c) == DOMAIN prop[c].Transaction.TxIn
NumInputs(c) == Len0(prop[c].Transaction.TxIn)
\* c's call is over: it returned or panicked
Ended(c) == pc[c] \in {"idle", "panicked"} /\ result[c].class # "none"
\* c is blocked in the device's Sign
InSign(c) == pc[c] \in {"btcSign", "ethSign"}
\* Sign answered c's call, and c's call is over
Answered(c) == Ended(c) /\ signResult[c].returned
Aborted(c) == Answered(c) /\ signResult[c].err = AbortError
WrongCount(c) ==
    /\ Answered(c)
    /\ signResult[c].err = Nil
    /\ Len0(signResult[c].signatures) # Len0(signArgs[c].digests)
\* the subScript and keypath of the address owning the output input i spends,
\* read from the world's tables
OwnerOf(c, i) ==
    Address(SpentOutput(prop[c].Transaction.TxIn[i].PreviousOutPoint).ScriptHashHex)
\* the transaction of c's proposal is as on entry, the signature scripts apart
SameButScripts(c) ==
    /\ DOMAIN prop[c].Transaction.TxIn = DOMAIN entry[c].Transaction.TxIn
    /\ \A i \in Inputs(c) :
         prop[c].Transaction.TxIn[i].PreviousOutPoint =
            entry[c].Transaction.TxIn[i].PreviousOutPoint
    /\ prop[c].PreviousOutputs = entry[c].PreviousOutputs
    /\ prop[c].SigHashes = entry[c].SigHashes

\* C1 (as stated): after a user abort SignTransaction returns
\* ErrSigningAborted and the proposal is exactly as it was before the call.
C1_AbortLeavesProposalUntouched ==
    \A c \in Callers :
        Aborted(c) => result[c] = ErrSigningAborted /\ prop[c] = entry[c]

\* C1 (amended): after a user abort SignTransaction returns
\* ErrSigningAborted; an Ethereum proposal is exactly as before the call; of a
\* Bitcoin proposal the Signatures matrix and the transaction are as before
\* the call, except that every input's SignatureScript now holds the
\* subScript of the address owning the output it spends.
C1_AbortLeavesSignatures ==
    \A c \in Callers :
        Aborted(c) =>
            /\ result[c] = ErrSigningAborted
            /\ IsEth(c) => prop[c] = entry[c]
            /\ IsBtc(c) =>
                 /\ prop[c].Signatures = entry[c].Signatures
                 /\ SameButScripts(c)
                 /\ \A i \in Inputs(c) :
                      prop[c].Transaction.TxIn[i].SignatureScript = OwnerOf(c, i).subScript

C1_Witness ==
    \E c \in Callers :
        /\ Aborted(c) /\ IsBtc(c) /\ NumInputs(c) = 2
        /\ prop[c] # entry[c]

\* C2: when Sign succeeds with a number of signatures other than the number
\* of digests submitted, the call panics and nothing is written: the
\* Signatures matrix and the Ethereum Tx are as before the call.
C2_WrongCountWritesNothing ==
    \A c \in Callers :
        WrongCount(c) =>
            /\ result[c].class = "Panic"
            /\ pc[c] = "panicked"
            /\ IsBtc(c) => prop[c].Signatures = entry[c].Signatures
            /\ IsEth(c) => prop[c].Tx = entry[c].Tx

C2_Witness ==
    \E c \in Callers :
        /\ WrongCount(c) /\ IsBtc(c)
        /\ NumInputs(c) = 2
        /\ Len0(signResult[c].signatures) = 1

\* C3: after a successful SignTransaction on a Bitcoin proposal, for every
\* input i the slot Signatures[i][cosignerIndex] holds the i-th signature the
\* device returned, which signs the i-th digest submitted, the digest
\* computed for input i with the subScript of the address owning its output.
C3_SignaturesInInputOrder ==
    \A c \in Callers :
        (Answered(c) /\ IsBtc(c) /\ result[c] = Ok) =>
            \A i \in Inputs(c) :
                /\ prop[c].Signatures[i][cosignerIndex] = signResult[c].signatures[i].Signature
                /\ prop[c].Signatures[i][cosignerIndex].digest = signArgs[c].digests[i]
                /\ signArgs[c].digests[i].idx = i
                /\ signArgs[c].digests[i].subScript = OwnerOf(c, i).subScript

C3_Witness ==
    \E c \in Callers :
        /\ Answered(c) /\ IsBtc(c) /\ result[c] = Ok
        /\ NumInputs(c) = 2
        /\ prop[c].Signatures[0][cosignerIndex] # prop[c].Signatures[1][cosignerIndex]

\* C4: whenever Sign has been invoked for a Bitcoin proposal, the digest list
\* and the keypath list it was given have one entry per input, and the
\* keypath at position i is that of the address owning the output spent by
\* input i.
C4_OneDigestAndKeypathPerInput ==
    \A c \in Callers :
        (IsBtc(c) /\ signArgs[c].invoked) =>
            /\ Len0(signArgs[c].digests) = NumInputs(c)
            /\ Len0(signArgs[c].paths) = NumInputs(c)
            /\ \A i \in Inputs(c) : signArgs[c].paths[i] = OwnerOf(c, i).keypath

C4_Witness ==
    \E c \in Callers :
        /\ IsBtc(c) /\ pc[c] = "btcSign"
        /\ NumInputs(c) = 2
        /\ signArgs[c].paths[0] # signArgs[c].paths[1]

\* C5: a SignTransaction call on a Bitcoin proposal never changes a slot of
\* another cosigner's column, at any point of the call and however it ends.
C5_OtherColumnsUnchanged ==
    \A c \in Callers :
        (IsBtc(c) /\ calls[c] > 0) =>
            /\ DOMAIN prop[c].Signatures = DOMAIN entry[c].Signatures
            /\ \A i \in DOMAIN prop[c].Signatures :
                 \A j \in DOMAIN prop[c].Signatures[i] :
                    j # CosignerIndex =>
                        prop[c].Signatures[i][j] = entry[c].Signatures[i][j]

C5_Witness ==
    \E c \in Callers :
        /\ Answered(c) /\ IsBtc(c) /\ result[c] = Ok
        /\ \A i \in Inputs(c) :
             /\ prop[c].Signatures[i][cosignerIndex] # NoSignature
             /\ \A j \in DOMAIN prop[c].Signatures[i] :
                  j # cosignerIndex => prop[c].Signatures[i][j] = NoSignature

\* C6: a call returns ErrSigningAborted exactly when Sign reported that the
\* holder declined; any other fault of Sign is returned as an error of
\* another class that carries the fault.
C6_AbortedIffDeclined ==
    \A c \in Callers :
        /\ Ended(c) =>
             (result[c].class = "UserAbortedSigning"
                <=> (signResult[c].returned /\ signResult[c].err = AbortError))
        /\ (Answered(c) /\ signResult[c].err \in DeviceFaults) =>
             (result[c].class = "Error" /\ result[c].cause = signResult[c].err)

C6_Witness ==
    \E c \in Callers :
        /\ Answered(c) /\ IsEth(c)
        /\ signResult[c].err = AbortError
        /\ result[c] = ErrSigningAborted

\* C7 (as stated): every call ends with Ok, UserAbortedSigning or Error.
C7_EveryFailureIsReturned ==
    \A c \in Callers :
        result[c].class \in {"none", "Ok", "UserAbortedSigning", "Error"}

\* C7 (amended): a user abort, a device or transport fault, a sighash
\* computation error and a signature the Signer rejects reach the caller as
\* the result of SignTransaction, which is then UserAbortedSigning or Error;
\* the protocol invariant violations (missing previous output, signature
\* count mismatch, unrecognised proposal variant) are panics and return
\* nothing; no call ends in another way.
C7_FailuresReturnedOrPanic ==
    \A c \in Callers :
        Ended(c) =>
            LET unknown == prop[c].kind = "unknown"
                missing == /\ IsBtc(c) /\ ~signArgs[c].invoked
                           /\ index[c] \in Inputs(c)
                           /\ prop[c].Transaction.TxIn[index[c]].PreviousOutPoint
                                \notin DOMAIN prop[c].PreviousOutputs
                sighash == /\ IsBtc(c) /\ ~signArgs[c].invoked
                           /\ index[c] \in Inputs(c)
                           /\ prop[c].Transaction.TxIn[index[c]].PreviousOutPoint
                                \in DOMAIN prop[c].PreviousOutputs
                fault   == signResult[c].returned /\ signResult[c].err \in DeviceFaults
                abort   == signResult[c].returned /\ signResult[c].err = AbortError
                rejects == /\ IsEth(c) /\ signResult[c].returned /\ signResult[c].err = Nil
                           /\ Len0(signResult[c].signatures) = 1
                           /\ prop[c].Signer.rejects
            IN  /\ result[c].class \in {"Ok", "UserAbortedSigning", "Error", "Panic"}
                /\ result[c].class = "Panic" <=> (unknown \/ missing \/ WrongCount(c))
                /\ result[c].class = "Error" <=> (sighash \/ fault \/ rejects)
                /\ result[c].class = "UserAbortedSigning" <=> abort

C7_Witness ==
    \E c \in Callers :
        /\ Ended(c) /\ IsBtc(c)
        /\ result[c].class = "Panic"
        /\ ~signArgs[c].invoked
        /\ index[c] = 1

\* C8: displayAddress is requested only with a secure output: without one
\* every OutputAddress call panics and nothing is sent to the device; with one
\* each call asks the device once and returns its answer.
C8_DisplayOnlyWithSecureOutput ==
    /\ ~HasSecureOutput =>
         /\ displayRequests = 0
         /\ outputCalls > 0 => outputResult.class = "Panic"
    /\ HasSecureOutput =>
         /\ displayRequests = outputCalls
         /\ outputCalls > 0 =>
              /\ displayAnswer = Nil => outputResult = Ok
              /\ displayAnswer # Nil => outputResult = Error(Nil, displayAnswer)

C8_Witness ==
    /\ HasSecureOutput
    /\ outputCalls = 2
    /\ displayRequests = 2
    /\ outputResult.class = "Error"

\* C9: at most one Sign call is in flight against the device at any time.
C9_AtMostOneSignInFlight ==
    Cardinality({c \in Callers : InSign(c)}) <= 1

\* C10: whenever Sign has been invoked for an Ethereum proposal it was given
\* one digest, the EIP-155 hash of the unsigned Tx, one path, the proposal's
\* keypath, and no transaction; and the call ends with Ok only when Sign
\* returned one signature.
C10_OneDigestOnePathOneSignature ==
    \A c \in Callers :
        (IsEth(c) /\ signArgs[c].invoked) =>
            /\ Len0(signArgs[c].digests) = 1
            /\ signArgs[c].digests[0] = SignerHash(entry[c].Signer, entry[c].Tx)
            /\ Len0(signArgs[c].paths) = 1
            /\ signArgs[c].paths[0] = prop[c].Keypath
            /\ ~signArgs[c].hasTx
            /\ signArgs[c].txProposal = NoTransaction
            /\ (Ended(c) /\ result[c] = Ok) =>
                 (signResult[c].err = Nil /\ Len0(signResult[c].signatures) = 1)

C10_Witness ==
    \E c \in Callers :
        /\ IsEth(c) /\ Ended(c) /\ result[c] = Ok
        /\ prop[c].Tx.sig # NoSignature

\* the inputs of c's proposal whose previous output is not in its mapping
MissingInputs(c) ==
    { i \in Inputs(c) :
        prop[c].Transaction.TxIn[i].PreviousOutPoint \notin DOMAIN prop[c].PreviousOutputs }
FirstMissing(c) == CHOOSE k \in MissingInputs(c) : \A i \in MissingInputs(c) : k <= i
ScriptOf(p, i) == p.Transaction.TxIn[i].SignatureScript

\* C12 (as stated): a call on a proposal with a missing previous output, or
\* of an unknown variant, ends in a panic without Sign having been invoked
\* and with the proposal exactly as it was before the call.
C12_FatalBeforeAnyWrite ==
    \A c \in Callers :
        (Ended(c) /\ (prop[c].kind = "unknown" \/ (IsBtc(c) /\ MissingInputs(c) # {}))) =>
            /\ result[c].class = "Panic"
            /\ ~signArgs[c].invoked
            /\ prop[c] = entry[c]

\* C12 (amended): a call on a proposal of an unknown variant panics at once,
\* the proposal untouched.  A call on a Bitcoin proposal whose first input
\* without previous output is k never invokes Sign and writes no Signatures
\* slot; inputs k and after are never modified; an input before k is modified
\* only in its SignatureScript, which receives its subScript; the call ends
\* either in the panic at input k, every input before k then holding its
\* subScript, or before k with the returned error of a digest computation.
C12_FatalBeforeSign ==
    \A c \in Callers :
        calls[c] > 0 =>
            /\ prop[c].kind = "unknown" =>
                 /\ Ended(c) /\ result[c].class = "Panic" /\ pc[c] = "panicked"
                 /\ ~signArgs[c].invoked
                 /\ prop[c] = entry[c]
            /\ (IsBtc(c) /\ MissingInputs(c) # {}) =>
                 LET k == FirstMissing(c) IN
                 /\ ~signArgs[c].invoked /\ signCount[c] = 0 /\ ~signResult[c].returned
                 /\ prop[c].Signatures = entry[c].Signatures
                 /\ SameButScripts(c)
                 /\ \A i \in Inputs(c) :
                      /\ i >= k => ScriptOf(prop[c], i) = ScriptOf(entry[c], i)
                      /\ i < k => ScriptOf(prop[c], i) \in
                                    {ScriptOf(entry[c], i), OwnerOf(c, i).subScript}
                 /\ Ended(c) =>
                      \/ /\ result[c].class = "Panic" /\ pc[c] = "panicked"
                         /\ index[c] = k
                         /\ \A i \in Inputs(c) :
                              i < k => ScriptOf(prop[c], i) = OwnerOf(c, i).subScript
                      \/ /\ result[c].class = "Error"
                         /\ index[c] < k

C12_Witness ==
    \E c \in Callers :
        /\ IsBtc(c) /\ Ended(c)
        /\ MissingInputs(c) = {1}
        /\ result[c].class = "Panic"
        /\ ScriptOf(prop[c], 0) # ScriptOf(entry[c], 0)
        /\ ScriptOf(prop[c], 1) = EmptyScript

\* C13: once Sign has been invoked for a Bitcoin proposal, every input of the
\* transaction it was handed holds in its SignatureScript the subScript of the
\* address owning the output it spends, and the transaction is not written
\* after the invocation; a Signatures slot holds what it held before the call
\* or a signature the device returned, never a subScript.
C13_ScriptsWrittenBeforeSign ==
    \A c \in Callers :
        (IsBtc(c) /\ calls[c] > 0) =>
            /\ signArgs[c].invoked =>
                 /\ signArgs[c].hasTx
                 /\ DOMAIN signArgs[c].txProposal.TxIn = Inputs(c)
                 /\ \A i \in Inputs(c) :
                      signArgs[c].txProposal.TxIn[i].SignatureScript = OwnerOf(c, i).subScript
                 /\ prop[c].Transaction = signArgs[c].txProposal
            /\ \A i \in DOMAIN prop[c].Signatures :
                 \A j \in DOMAIN prop[c].Signatures[i] :
                    \/ prop[c].Signatures[i][j] = entry[c].Signatures[i][j]
                    \/ /\ j = cosignerIndex
                       /\ Answered(c) /\ result[c] = Ok
                       /\ prop[c].Signatures[i][j] = signResult[c].signatures[i].Signature

C13_Witness ==
    \E c \in Callers :
        /\ IsBtc(c) /\ pc[c] = "btcSign"
        /\ NumInputs(c) = 2
        /\ \A i \in Inputs(c) :
             /\ ScriptOf(entry[c], i) = EmptyScript
             /\ signArgs[c].txProposal.TxIn[i].SignatureScript # EmptyScript

\* C14: when an Ethereum call ends with Ok, the compact signature built from
\* the one signature returned has 65 bytes, bytes 0..31 being R left-padded
\* with zeros, bytes 32..63 S left-padded with zeros and byte 64 the recovery
\* id, and Tx is the transaction the Signer builds from the Tx of before the
\* call and that signature; when the call ends otherwise, Tx is the Tx of
\* before the call.
C14_CompactSignatureApplied ==
    \A c \in Callers :
        (IsEth(c) /\ Ended(c)) =>
            /\ result[c] = Ok =>
                 LET sg == signResult[c].signatures[0]
                     cs == CompactSig(sg)
                     padR == FieldLen - Len0(BigBytes(sg.Signature.R))
                     padS == FieldLen - Len0(BigBytes(sg.Signature.S))
                 IN  /\ DOMAIN cs = 0..64
                     /\ \A k \in 0..31 : k < padR => cs[k] = 0
                     /\ \A k \in 32..63 : k - 32 < padS => cs[k] = 0
                     /\ BytesValue(cs, 0, 31) = sg.Signature.R
                     /\ BytesValue(cs, 32, 63) = sg.Signature.S
                     /\ cs[64] = sg.RecID
                     /\ prop[c].Tx = WithSignature(entry[c].Tx, prop[c].Signer, cs).tx
                     /\ prop[c].Tx.sig.R = sg.Signature.R
                     /\ prop[c].Tx.sig.S = sg.Signature.S
                     /\ prop[c].Tx.nonce = entry[c].Tx.nonce
                     /\ prop[c].Tx.payload = entry[c].Tx.payload
            /\ result[c] # Ok => prop[c].Tx = entry[c].Tx

C14_Witness ==
    \E c \in Callers :
        /\ IsEth(c) /\ Ended(c) /\ result[c] = Ok
        /\ entry[c].Tx.sig = NoSignature
        /\ prop[c].Tx.sig.R = 300
        /\ prop[c].Tx.sig.S = 65535

\* C15: the digest of every input is computed by the one algorithm its
\* address asks for: the witness algorithm with the proposal's hash cache and
\* the spent output's value when isSegwit, the legacy algorithm over the
\* transaction otherwise; both with SigHashAll, the input's index and the
\* address's subScript.  A digest computation error ends the call with that
\* error, Sign not invoked.
C15_OneAlgorithmPerInput ==
    \A c \in Callers :
        (IsBtc(c) /\ calls[c] > 0) =>
            /\ \A i \in DOMAIN signatureHashes[c] :
                 LET d == signatureHashes[c][i]
                     a == OwnerOf(c, i)
                     o == SpentOutput(prop[c].Transaction.TxIn[i].PreviousOutPoint)
                 IN  /\ i \in Inputs(c)
                     /\ d.algo = IF a.isSegwit THEN "witness" ELSE "legacy"
                     /\ d.hashType = SigHashAll
                     /\ d.idx = i
                     /\ d.subScript = a.subScript
                     /\ a.subScript \notin MalformedScripts
                     /\ a.isSegwit => (d.amt = o.Value /\ d.commits = prop[c].SigHashes.hashPrevOuts)
                     /\ ~a.isSegwit => d.commits = PrevOuts(prop[c].Transaction)
            /\ (Ended(c) /\ index[c] \in Inputs(c) /\ index[c] \notin MissingInputs(c)) =>
                 /\ OwnerOf(c, index[c]).subScript \in MalformedScripts
                 /\ result[c] = Error(IF OwnerOf(c, index[c]).isSegwit
                                      THEN "Failed to calculate SegWit signature hash"
                                      ELSE "Failed to calculate legacy signature hash",
                                      "cannot parse script")
                 /\ pc[c] = "idle"
                 /\ ~signArgs[c].invoked /\ signCount[c] = 0

C15_Witness ==
    \E c \in Callers :
        /\ IsBtc(c) /\ Ended(c)
        /\ NumInputs(c) = 2
        /\ Len0(signatureHashes[c]) = 1
        /\ signatureHashes[c][0].algo = "witness"
        /\ result[c].detail = "Failed to calculate legacy signature hash"

\* C16: when the previous call on a Bitcoin proposal was ended by Sign with
\* an abort or a fault, the next call gives Sign the same digests and the
\* same keypaths, in the same order.
C16_SecondAttemptSameDigests ==
    \A c \in Callers :
        (IsBtc(c) /\ signArgs[c].invoked /\ previous[c].invoked /\ previous[c].failed) =>
            /\ signArgs[c].digests = previous[c].digests
            /\ signArgs[c].paths = previous[c].paths

C16_Witness ==
    \E c \in Callers :
        /\ IsBtc(c) /\ pc[c] = "btcSign"
        /\ previous[c].invoked /\ previous[c].failed
        /\ NumInputs(c) = 2
        /\ signArgs[c].digests[1].algo = "legacy"
        /\ ScriptOf(entry[c], 0) # EmptyScript

\* C17: a call invokes Sign at most once; a call that ended has invoked it
\* once exactly when the digests of all inputs were computed (always, for an
\* Ethereum proposal), whatever Sign answered.
C17_SignInvokedOnce ==
    \A c \in Callers :
        /\ signCount[c] <= 1
        /\ InSign(c) => signCount[c] = 1
        /\ Ended(c) =>
             /\ IsEth(c) => signCount[c] = 1 /\ signResult[c].returned
             /\ IsBtc(c) =>
                  (signCount[c] = 1 <=> (index[c] = NumInputs(c) /\ signResult[c].returned))
             /\ IsBtc(c) =>
                  (index[c] = NumInputs(c) <=> Len0(signatureHashes[c]) = NumInputs(c))

C17_Witness ==
    \E c \in Callers :
        /\ IsBtc(c) /\ Answered(c)
        /\ signResult[c].err \in DeviceFaults
        /\ signCount[c] = 1
        /\ calls[c] = 1

\* --------------------------------------------- claims on the Load component
\* the requests that the last loadEndpoints made
LastRequests == {request \in issued : request.id > lastLoad.counter}
\* the keys whose endpoint the last loadEndpoints found new or different
NewOrDifferent ==
    {key \in ObjectKeys(endpoints.object) :
        lastLoad.old.isNull \/ lastLoad.old.object[key] # endpoints.object[key]}
\* the keys that the last loadEndpoints found gone from the endpoints
Gone ==
    {key \in ObjectKeys(lastLoad.old.object) : endpoints.object[key] = Undefined}
\* the requests ever made for a key
RequestsOf(key) == {request \in issued : request.key = key}

\* C11: with renderOnlyOnceLoaded, a render shows the wrapped component only
\* if every endpoint determined from the props of that render has a defined
\* value in the state of that render; any other render returns null
C11_WrappedOnlyOnceLoaded ==
    (renderOnlyOnceLoaded /\ rendered.out = "wrapped") =>
        \A key \in ObjectKeys(determineEndpoints(rendered.props)) :
            rendered.state[key] # Undefined

\* C18: every mount and update requests exactly the keys whose endpoint is
\* new or differs from the one recorded before, once each and with the
\* endpoint of the current props; while the endpoints have never changed,
\* every endpoint has been requested exactly once, and the number of requests
\* is bounded by the number of changes of the endpoints
C18_RequestsOnlyNewOrDifferent ==
    /\ lastLoad.ran =>
         /\ {request.key : request \in LastRequests} = NewOrDifferent
         /\ Cardinality(LastRequests) = Cardinality(NewOrDifferent)
         /\ \A request \in LastRequests :
              request.endpoint = endpoints.object[request.key]
    /\ (mounted /\ lastLoad.changes = 0) =>
         \A key \in Keys :
             /\ Cardinality(RequestsOf(key)) =
                    IF key \in ObjectKeys(endpoints.object) THEN 1 ELSE 0
             /\ \A request \in RequestsOf(key) :
                    request.endpoint = endpoints.object[key]
    /\ Cardinality(issued) = logCounter
    /\ inflight \subseteq issued
    /\ logCounter <= Cardinality(Keys) * (1 + lastLoad.changes)

\* responses have arrived and updates have followed them, the parent has
\* passed the same endpoints again, and each endpoint was requested once
C18_Witness ==
    /\ mounted
    /\ lastLoad.changes = 0
    /\ propChanges > 0
    /\ ObjectKeys(endpoints.object) = Keys
    /\ inflight = {}
    /\ ~dirty
    /\ ~lastLoad.old.isNull
    /\ LastRequests = {}
    /\ logCounter = Cardinality(Keys)
    /\ \A key \in Keys : loadState[key] = ApiResponse(endpoints.object[key])

\* C19: an update sets to undefined the value of every key that was among
\* the recorded endpoints and is not among the endpoints of the current
\* props, and leaves the value of every key whose endpoint is the same
C19_UpdateRemovesGoneKeys ==
    [][(componentDidUpdate \/ \E props \in PropsValues : componentDidUpdateProps(props)) =>
        \A key \in Keys :
            /\ (endpoints.object[key] # Undefined /\ endpoints'.object[key] = Undefined)
                  => loadState'[key] = Undefined
            /\ endpoints.object[key] = endpoints'.object[key]
                  => loadState'[key] = loadState[key]]_vars

\* an update has just removed the loaded value of a key that is gone and
\* kept the loaded value of a key whose endpoint is the same
C19_Witness ==
    /\ lastLoad.ran
    /\ \E key \in Gone :
         /\ lastLoad.stateBefore[key] # Undefined
         /\ loadState[key] = Undefined
    /\ \E key \in ObjectKeys(endpoints.object) :
         /\ lastLoad.old.object[key] = endpoints.object[key]
         /\ lastLoad.stateBefore[key] # Undefined
         /\ loadState[key] = lastLoad.stateBefore[key]

\* C20: once no request is in flight, the state holds for every key among
\* the endpoints the response to its current endpoint, and no value for
\* every key that is not among the endpoints
C20_NoStaleResponse ==
    (mounted /\ inflight = {}) =>
        \A key \in Keys :
            IF endpoints.object[key] # Undefined
            THEN loadState[key] = ApiResponse(endpoints.object[key])
            ELSE loadState[key] = Undefined

====
